---- MODULE Spec2Model ----
(***************************************************************************)
(* Model of the budget-monitoring pipeline: the streaming input table, the *)
(* three incrementally maintained result tables of transformations.py     *)
(* (state x sector aggregates, spike alerts, contractor flags), the        *)
(* change-log files the pipeline writes, and the poller of main.py that    *)
(* reads those files into the state served by the HTTP endpoints.          *)
(*                                                                         *)
(* Amounts are whole crores; averages and ratios are exact rationals kept  *)
(* in lowest terms, which agrees with the float arithmetic of the code on  *)
(* whole amounts at the sizes explored here.                               *)
(***************************************************************************)
EXTENDS Integers, Sequences, FiniteSets, TLC

\* ------------------------------------------------------------------------
\* Bounds of the exploration
\* ------------------------------------------------------------------------
MaxEvents == 3
MaxBatch == 2
MaxSpikeEvents == 6
MaxServedBatches == 3

\* ------------------------------------------------------------------------
\* Program constants
\* ------------------------------------------------------------------------
SPIKE_MULTIPLIER == 4
CONTRACTOR_ALERT_CRORES == 5000
SeedCount == 5

STATES == <<"Tamil Nadu", "Maharashtra">>
SECTORS == <<"Electricity", "Water">>
CONTRACTORS == <<"GreenInfra Ltd", "BharatBuild Corp">>

\* Amounts _generate_event can draw: inside the base range of the sector,
\* or inside its anomalous range (5 to 15 times the upper bound).
BASE_ALLOCATIONS ==
  [s \in {"Electricity", "Water"} |->
     IF s = "Electricity" THEN {300, 4800, 5000} ELSE {300, 5000}]

Range(f) == {f[i] : i \in DOMAIN f}

IndexOf(seq, x) == CHOOSE i \in DOMAIN seq : seq[i] = x

\* ------------------------------------------------------------------------
\* Exact arithmetic
\* ------------------------------------------------------------------------
RECURSIVE GCD(_, _)
GCD(a, b) == IF b = 0 THEN a ELSE GCD(b, a % b)

Abs(x) == IF x < 0 THEN -x ELSE x

\* The quotient n / d in lowest terms with a positive denominator; a division
\* by zero yields the error value 0/0.
Div(n, d) ==
  IF d = 0 THEN [num |-> 0, den |-> 0]
  ELSE LET g == GCD(Abs(n), Abs(d))
           s == IF d < 0 THEN -1 ELSE 1
       IN  [num |-> (s * n) \div g, den |-> (s * d) \div g]

\* f"{ratio:.1f}": the ratio in tenths, rounded half to even.
Fmt1(r) ==
  IF r.den = 0 THEN 0 ELSE
  LET q == (10 * r.num) \div r.den
      rem2 == 2 * ((10 * r.num) % r.den)
  IN  IF rem2 > r.den \/ (rem2 = r.den /\ q % 2 = 1) THEN q + 1 ELSE q

\* ------------------------------------------------------------------------
\* Events
\* ------------------------------------------------------------------------
_generate_event ==
  UNION {{[state |-> st, sector |-> se, allocation |-> a, contractor |-> c] :
            st \in Range(STATES), a \in BASE_ALLOCATIONS[se],
            c \in Range(CONTRACTORS)} : se \in Range(SECTORS)}

\* The events explored when the claim is about the aggregations and flags:
\* both states, both sectors, both contractors; one contractor is paid small
\* amounts in both sectors, the other small and large amounts in one sector.
Events ==
  {e \in _generate_event :
     \/ e.allocation = 300 /\ e.contractor = "GreenInfra Ltd"
     \/ e.allocation \in {300, 5000}
          /\ e.sector = "Electricity"
          /\ e.contractor = "BharatBuild Corp"}

\* The events explored when the claim is about spikes: one sector, a small
\* payment from one state and two large ones from the other.
SpikeEvents ==
  {e \in _generate_event :
     /\ e.sector = "Electricity"
     /\ \/ e.allocation = 300 /\ e.state = "Maharashtra"
              /\ e.contractor = "GreenInfra Ltd"
        \/ e.allocation > 300 /\ e.state = "Tamil Nadu"
              /\ e.contractor = "BharatBuild Corp"}

\* The batches explored when the claim is about the served alert list: a
\* large payment in each sector, small payments one at a time or, when the
\* engine commits late, several at once.
Ev(st, se, a, c) ==
  [state |-> st, sector |-> se, allocation |-> a, contractor |-> c]

ServedBatches ==
  LET bigE == Ev("Tamil Nadu", "Electricity", 5000, "BharatBuild Corp")
      smallE == Ev("Maharashtra", "Electricity", 300, "GreenInfra Ltd")
      bigW == Ev("Tamil Nadu", "Water", 5000, "BharatBuild Corp")
      smallW == Ev("Maharashtra", "Water", 300, "GreenInfra Ltd")
  IN  {<<bigE>>, <<smallE>>, <<bigW>>, <<smallW>>,
       <<smallE, smallE, smallE, smallE>>,
       <<bigW, smallW, smallW, smallW, smallW>>}

\* int(time.time()) of the writer: the seed rows are written at once, the
\* loop sleeps between any two later rows.
Timestamp(i) == IF i <= SeedCount THEN 0 ELSE i - SeedCount

\* The rows of a batch as they enter the table after `n` earlier rows.
Stamp(batch, n) ==
  [i \in 1..Len(batch) |->
     [id |-> n + i, state |-> batch[i].state, sector |-> batch[i].sector,
      allocation |-> batch[i].allocation, contractor |-> batch[i].contractor,
      timestamp |-> Timestamp(n + i)]]

\* All batches of 1..k events over a pool.
BatchesOver(pool, k) == UNION {[1..n -> pool] : n \in 1..k}

VARIABLES
  table,             \* the streaming input table, rows in arrival order
  state_sector_agg,  \* (state, sector) -> [total_allocation, event_count]
  sector_avg,        \* sector -> [total, count] behind the sector average
  contractor_agg,    \* contractor -> [total_spend, payment_count]
  spike_alerts,      \* current rows of the spike table
  contractor_flags,  \* current rows of the flag table
  agg_file,          \* output/state_sector_agg.jsonl
  spike_file,        \* output/spike_alerts.jsonl
  flags_file,        \* output/contractor_flags.jsonl
  now,               \* commit time of the last batch
  batch_order,       \* engine's order of the rows of one commit
  _state,            \* main.py's served state
  stream_file,       \* data/budget_stream.jsonl, the lines written so far
  read_offset,       \* number of lines of stream_file the engine has read
  _live_context_store, \* rag_layer.py's context for the question answerer
  poll_pc,           \* where the poller stands in its cycle
  poll_buf,          \* what the poller has read in this cycle
  response,          \* the last answer of get_spikes, with its request
  _state_lock,       \* who holds main.py's lock: nobody, the poller, a reader
  reader_pc,         \* where the dashboard stands in its locked section
  view,              \* what the dashboard has read of _state
  field_cycle,       \* the poll cycle that wrote each field of _state
  _rag_answerer,     \* main.py's question answerer, None when unavailable
  lifespan_pc,       \* where the application stands in its startup
  query_response,    \* the last answer of /query
  jsonl_path,        \* the file given to the last call of _read_jsonl
  jsonl_records,     \* what that call returned
  _writer_started,   \* ingestion.py's flag
  call_pc,           \* where each caller of _start_stream_writer stands
  write_loops,       \* number of writer loops started
  truncations,       \* number of times the stream file was opened for writing
  query_pc,          \* where query_budget_ai stands in its reads
  enriched,          \* the live context query_budget_ai has read
  context_calls      \* the contexts the calls of update_live_context gave

\* What the dashboard owns, the startup, the calls of _read_jsonl, the
\* callers of _start_stream_writer.
readerVars == <<_state_lock, reader_pc, view, field_cycle>>

startupVars == <<_rag_answerer, lifespan_pc, query_response>>

jsonlVars == <<jsonl_path, jsonl_records>>

writerVars == <<_writer_started, call_pc, write_loops, truncations>>

\* What query_budget_ai owns, with the history of update_live_context.
contextVars == <<query_pc, enriched, context_calls>>

auxVars == <<readerVars, startupVars, jsonlVars, writerVars, contextVars>>

vars == <<table, state_sector_agg, sector_avg, contractor_agg, spike_alerts,
          contractor_flags, agg_file, spike_file, flags_file, now,
          batch_order, _state, stream_file, read_offset, _live_context_store,
          poll_pc, poll_buf, response, auxVars>>

\* What the engine owns, what the poller owns.
engineVars == <<table, state_sector_agg, sector_avg, contractor_agg,
                spike_alerts, contractor_flags, agg_file, spike_file,
                flags_file, now, read_offset>>

pollVars == <<_state, _live_context_store, poll_pc, poll_buf>>

\* ------------------------------------------------------------------------
\* transformations.py: the three result tables, maintained incrementally
\* ------------------------------------------------------------------------

\* A groupby that forgets the sector in its key.
StateSectorReduceByState(rows, e) ==
  IF \E r \in rows : r.state = e.state
  THEN {IF r.state = e.state
        THEN [r EXCEPT !.total_allocation = @ + e.allocation,
                       !.event_count = @ + 1]
        ELSE r : r \in rows}
  ELSE rows \cup {[state |-> e.state, sector |-> e.sector,
                   total_allocation |-> e.allocation, event_count |-> 1]}

\* groupby(state, sector).reduce(sum, count): fold one event into the rows.
StateSectorReduce(rows, e) ==
  IF \E r \in rows : r.state = e.state /\ r.sector = e.sector
  THEN {IF r.state = e.state /\ r.sector = e.sector
        THEN [r EXCEPT !.total_allocation = @ + e.allocation,
                       !.event_count = @ + 1]
        ELSE r : r \in rows}
  ELSE rows \cup {[state |-> e.state, sector |-> e.sector,
                   total_allocation |-> e.allocation, event_count |-> 1]}

RECURSIVE StateSectorReduceAll(_, _)
StateSectorReduceAll(rows, batch) ==
  IF batch = <<>> THEN rows
  ELSE StateSectorReduceAll(StateSectorReduce(rows, Head(batch)), Tail(batch))

\* An average by floor division.
AvgAllocationFloor(r) == Div(r.total_allocation \div r.event_count, 1)

\* select(*this, avg_allocation = total_allocation / event_count)
AvgAllocation(r) == Div(r.total_allocation, r.event_count)

\* The table of _state_sector_aggregations after a batch, from the table
\* before it.
_state_sector_aggregations(prev, batch) ==
  LET reduced ==
        StateSectorReduceAll(
          {[state |-> r.state, sector |-> r.sector,
            total_allocation |-> r.total_allocation,
            event_count |-> r.event_count] : r \in prev}, batch)
  IN  {[state |-> r.state, sector |-> r.sector,
        total_allocation |-> r.total_allocation,
        event_count |-> r.event_count,
        avg_allocation |-> AvgAllocation(r)] : r \in reduced}

\* A reducer that keeps the average a sector had at its first event.
SectorReduceStaleAvg(rows, e) ==
  IF \E r \in rows : r.sector = e.sector
  THEN {IF r.sector = e.sector
        THEN [sector |-> r.sector, total |-> r.total + e.allocation,
              count |-> r.count + 1, sector_avg |-> r.sector_avg]
        ELSE r : r \in rows}
  ELSE rows \cup {[sector |-> e.sector, total |-> e.allocation, count |-> 1,
                   sector_avg |-> Div(e.allocation, 1)]}

\* groupby(sector).reduce(sector_avg = sum / count): fold one event.
SectorReduce(rows, e) ==
  IF \E r \in rows : r.sector = e.sector
  THEN {IF r.sector = e.sector
        THEN [sector |-> r.sector, total |-> r.total + e.allocation,
              count |-> r.count + 1,
              sector_avg |-> Div(r.total + e.allocation, r.count + 1)]
        ELSE r : r \in rows}
  ELSE rows \cup {[sector |-> e.sector, total |-> e.allocation, count |-> 1,
                   sector_avg |-> Div(e.allocation, 1)]}

RECURSIVE SectorAvgTable(_, _)
\* A reducer that folds only the first event of a commit.
SectorAvgTableFirstOnly(rows, batch) ==
  IF batch = <<>> THEN rows ELSE SectorReduce(rows, Head(batch))

SectorAvgTable(rows, batch) ==
  IF batch = <<>> THEN rows
  ELSE SectorAvgTable(SectorReduce(rows, Head(batch)), Tail(batch))

\* table.join(sector_avg, table.sector == sector_avg.sector)
Joined(tbl, avgs) ==
  {[id |-> p[1].id, state |-> p[1].state, sector |-> p[1].sector,
    allocation |-> p[1].allocation, contractor |-> p[1].contractor,
    timestamp |-> p[1].timestamp, sector_avg |-> p[2].sector_avg] :
     p \in {q \in Range(tbl) \X avgs : q[1].sector = q[2].sector}}

\* A spike test that is not strict.
IsSpikeOrEqual(allocation, avg) ==
  allocation * avg.den >= SPIKE_MULTIPLIER * avg.num

\* joined.allocation > SPIKE_MULTIPLIER * joined.sector_avg
IsSpike(allocation, avg) ==
  allocation * avg.den > SPIKE_MULTIPLIER * avg.num

\* spikes.allocation / spikes.sector_avg
SpikeRatio(allocation, avg) == Div(allocation * avg.den, avg.num)

\* A detector whose baseline leaves out the event under test.
SpikeDetectionExcludingSelf(tbl, avgs) ==
  {[id |-> p[1].id, state |-> p[1].state, sector |-> p[1].sector,
    allocation |-> p[1].allocation, contractor |-> p[1].contractor,
    timestamp |-> p[1].timestamp, sector_avg |-> p[2].sector_avg,
    spike_ratio |-> SpikeRatio(p[1].allocation, p[2].sector_avg),
    alert_reason |->
      <<"SPIKE", p[1].state, p[1].sector,
        Fmt1(SpikeRatio(p[1].allocation, p[2].sector_avg))>>] :
     p \in {q \in Range(tbl) \X avgs :
              /\ q[1].sector = q[2].sector
              /\ q[2].count > 1
              /\ q[1].allocation * (q[2].count - 1)
                   > SPIKE_MULTIPLIER * (q[2].total - q[1].allocation)}}

\* The table of _spike_detection over the current input table and sector
\* averages.
_spike_detection(tbl, avgs) ==
  {[id |-> j.id, state |-> j.state, sector |-> j.sector,
    allocation |-> j.allocation, contractor |-> j.contractor,
    timestamp |-> j.timestamp, sector_avg |-> j.sector_avg,
    spike_ratio |-> SpikeRatio(j.allocation, j.sector_avg),
    alert_reason |->
      <<"SPIKE", j.state, j.sector,
        Fmt1(SpikeRatio(j.allocation, j.sector_avg))>>] :
     j \in {x \in Joined(tbl, avgs) : IsSpike(x.allocation, x.sector_avg)}}

\* A reducer that keeps the last payment instead of the running sum.
ContractorReduceLast(rows, e) ==
  IF \E r \in rows : r.contractor = e.contractor
  THEN {IF r.contractor = e.contractor
        THEN [r EXCEPT !.total_spend = e.allocation,
                       !.payment_count = @ + 1]
        ELSE r : r \in rows}
  ELSE rows \cup {[contractor |-> e.contractor,
                   total_spend |-> e.allocation, payment_count |-> 1]}

\* A reducer over a window of two payments instead of the whole history.
ContractorReduceWindowed(rows, e) ==
  IF \E r \in rows : r.contractor = e.contractor
  THEN {IF r.contractor = e.contractor
        THEN IF r.payment_count >= 2
             THEN [r EXCEPT !.total_spend = e.allocation,
                            !.payment_count = 1]
             ELSE [r EXCEPT !.total_spend = @ + e.allocation,
                            !.payment_count = @ + 1]
        ELSE r : r \in rows}
  ELSE rows \cup {[contractor |-> e.contractor,
                   total_spend |-> e.allocation, payment_count |-> 1]}

\* groupby(contractor).reduce(sum, count): fold one event.
\* A reducer that books a payment on every contractor seen so far.
ContractorReduceEveryone(rows, e) ==
  {[r EXCEPT !.total_spend = @ + e.allocation, !.payment_count = @ + 1] :
     r \in rows}
    \cup (IF \E r \in rows : r.contractor = e.contractor THEN {}
          ELSE {[contractor |-> e.contractor, total_spend |-> e.allocation,
                 payment_count |-> 1]})

ContractorReduce(rows, e) ==
  IF \E r \in rows : r.contractor = e.contractor
  THEN {IF r.contractor = e.contractor
        THEN [r EXCEPT !.total_spend = @ + e.allocation,
                       !.payment_count = @ + 1]
        ELSE r : r \in rows}
  ELSE rows \cup {[contractor |-> e.contractor,
                   total_spend |-> e.allocation, payment_count |-> 1]}

RECURSIVE ContractorAggTable(_, _)
ContractorAggTable(rows, batch) ==
  IF batch = <<>> THEN rows
  ELSE ContractorAggTable(ContractorReduce(rows, Head(batch)), Tail(batch))

\* A flag test that is not strict.
IsFlaggedOrEqual(r) == r.total_spend >= CONTRACTOR_ALERT_CRORES

\* contractor_agg.total_spend > CONTRACTOR_ALERT_CRORES
IsFlagged(r) == r.total_spend > CONTRACTOR_ALERT_CRORES

\* The table of _contractor_anomalies over the current contractor totals.
_contractor_anomalies(cagg) ==
  {[contractor |-> r.contractor, total_spend |-> r.total_spend,
    payment_count |-> r.payment_count,
    alert_reason |->
      <<"CONTRACTOR FLAG", r.contractor, r.total_spend, r.payment_count>>] :
     r \in {x \in cagg : IsFlagged(x)}}

\* ------------------------------------------------------------------------
\* main.py: the output sinks and the poller
\* ------------------------------------------------------------------------

RECURSIVE SortBy(_, _)
SortBy(S, rank) ==
  IF S = {} THEN <<>>
  ELSE LET m == CHOOSE x \in S : \A y \in S : rank[x] <= rank[y]
       IN  <<m>> \o SortBy(S \ {m}, rank)

Reverse(seq) == [i \in 1..Len(seq) |-> seq[Len(seq) + 1 - i]]

\* The changes of one commit to a table: a row that left the table with
\* diff -1, a row that entered it with diff +1 (an updated row is both).
Changes(old, new, t) ==
  {[row |-> r, time |-> t, diff |-> -1] : r \in old \ new}
    \cup {[row |-> r, time |-> t, diff |-> 1] : r \in new \ old}

\* The order in which the engine hands the changes of one commit to a sink
\* is a function of the rows that the code does not choose: one of two
\* orders by row key, fixed for a run.
CommitOrder(changes, key) ==
  LET rank == [c \in changes |-> 2 * key[c] + (IF c.diff = 1 THEN 1 ELSE 0)]
  IN  IF batch_order THEN SortBy(changes, rank)
      ELSE Reverse(SortBy(changes, rank))

\* pw.io.jsonlines.write of the selected columns: one line per change.
AggLine(c) ==
  [state |-> c.row.state, sector |-> c.row.sector,
   total_allocation |-> c.row.total_allocation,
   event_count |-> c.row.event_count,
   avg_allocation |-> c.row.avg_allocation,
   time |-> c.time, diff |-> c.diff]

SpikeLine(c) ==
  [state |-> c.row.state, sector |-> c.row.sector,
   allocation |-> c.row.allocation, contractor |-> c.row.contractor,
   timestamp |-> c.row.timestamp, sector_avg |-> c.row.sector_avg,
   spike_ratio |-> c.row.spike_ratio, alert_reason |-> c.row.alert_reason,
   time |-> c.time, diff |-> c.diff]

FlagLine(c) ==
  [contractor |-> c.row.contractor, total_spend |-> c.row.total_spend,
   payment_count |-> c.row.payment_count,
   alert_reason |-> c.row.alert_reason,
   time |-> c.time, diff |-> c.diff]

AggLines(old, new, t) ==
  LET ch == Changes(old, new, t)
      key == [c \in ch |-> IndexOf(STATES, c.row.state) * Len(SECTORS)
                             + IndexOf(SECTORS, c.row.sector)]
      ord == CommitOrder(ch, key)
  IN  [i \in 1..Len(ord) |-> AggLine(ord[i])]

SpikeLines(old, new, t) ==
  LET ch == Changes(old, new, t)
      key == [c \in ch |-> c.row.id]
      ord == CommitOrder(ch, key)
  IN  [i \in 1..Len(ord) |-> SpikeLine(ord[i])]

FlagLines(old, new, t) ==
  LET ch == Changes(old, new, t)
      key == [c \in ch |-> IndexOf(CONTRACTORS, c.row.contractor)]
      ord == CommitOrder(ch, key)
  IN  [i \in 1..Len(ord) |-> FlagLine(ord[i])]

\* A sink that rewrites its file at every commit.
JsonlinesWriteTruncating(file, lines) == lines

\* A sink that puts the newest lines first.
JsonlinesWriteNewestFirst(file, lines) == lines \o file

\* pw.io.jsonlines.write: the lines of a commit are appended to the file.
JsonlinesWrite(file, lines) == file \o lines

\* _read_jsonl: the records of the file, each distinct record once, in order
\* of first occurrence.
RECURSIVE Unique(_, _)
RECURSIVE JsonLoadsUntilError(_)
Unique(records, seen) ==
  IF records = <<>> THEN <<>>
  ELSE IF Head(records) \in seen THEN Unique(Tail(records), seen)
       ELSE <<Head(records)>> \o Unique(Tail(records), seen \cup {Head(records)})

\* A file whose lines are the lines a sink wrote.
OnDisk(file) ==
  [exists |-> TRUE,
   lines |-> [i \in DOMAIN file |-> [kind |-> "json", value |-> file[i]]]]

\* A reader that gives up at the first line that is not JSON.
JsonLoadsUntilError(lines) ==
  IF lines = <<>> THEN <<>>
  ELSE IF Head(lines).kind = "undecodable" THEN <<>>
  ELSE IF Head(lines).kind = "blank" THEN JsonLoadsUntilError(Tail(lines))
  ELSE <<Head(lines).value>> \o JsonLoadsUntilError(Tail(lines))

\* The loop over the lines: a blank line is skipped, a line that json.loads
\* rejects is skipped, every other line gives a record.
JsonLoads(lines) ==
  LET ok == SelectSeq(lines, LAMBDA l : l.kind = "json")
  IN  [i \in DOMAIN ok |-> ok[i].value]

\* _read_jsonl on a path: no file, no records.
ReadJsonlPath(path) ==
  IF ~path.exists THEN <<>> ELSE Unique(JsonLoads(path.lines), {})

_read_jsonl(file) == ReadJsonlPath(OnDisk(file))

\* last_updated before the first poll.
None == -1

\* ------------------------------------------------------------------------
\* State machine
\* ------------------------------------------------------------------------
\* A line of the stream file: json.dumps of an event, or a line that does
\* not fit the schema; `producer` tells which writer wrote it.
Lines(batch, p) ==
  [i \in 1..Len(batch) |-> [event |-> batch[i], defect |-> "none",
                            producer |-> p]]

\* BudgetEventSchema: a line enters the table when it has the four typed
\* columns and the timestamp; the schema puts no condition on the values.
BudgetEventSchema(line) == line.defect = "none"

get_budget_stream(lines) ==
  LET ok == SelectSeq(lines, BudgetEventSchema)
  IN  [i \in 1..Len(ok) |-> ok[i].event]

\* The summary the poller builds for the question answerer: one entry per
\* "state / sector" key, a later record of the key replacing an earlier one.
Summary(agg) ==
  LET keys == {<<agg[i].state, agg[i].sector>> : i \in DOMAIN agg}
      last(k) == CHOOSE i \in DOMAIN agg :
                   /\ <<agg[i].state, agg[i].sector>> = k
                   /\ \A j \in DOMAIN agg :
                        <<agg[j].state, agg[j].sector>> = k => j <= i
  IN  [k \in keys |->
         [total_allocation |-> agg[last(k)].total_allocation,
          event_count |-> agg[last(k)].event_count,
          avg_allocation |-> agg[last(k)].avg_allocation]]

\* spike_alerts[-10:]
ContextAlerts == 10

LastN(seq, n) ==
  IF Len(seq) <= n THEN seq ELSE SubSeq(seq, Len(seq) - n + 1, Len(seq))

update_live_context(spikes, contractors, summary) ==
  [spike_alerts |-> LastN(spikes, ContextAlerts),
   contractor_flags |-> contractors,
   state_sector_summary |-> summary]

\* The fields of _state, and a dashboard that has read none of them.
Fields ==
  {"spike_alerts", "contractor_flags", "state_sector_agg", "last_updated"}

NoView == [f \in Fields |-> None]

\* No /query request was answered yet.
NoQueryResponse == [status_code |-> 0, rag_ready |-> FALSE, invoked |-> FALSE]

\* The path of a file that does not exist.
Missing == [exists |-> FALSE, lines |-> <<>>]

\* The threads that call get_budget_stream.
Callers == {1, 2}

\* The keys of _live_context_store, and a query that has read none of them.
ContextKeys == {"spike_alerts", "contractor_flags", "state_sector_summary"}

NoContext == [k \in ContextKeys |-> None]

\* No call of query_budget_ai is under way.
QueryIdle == [step |-> "idle", key |-> ""]

NoResponse == [limit |-> None, stored |-> <<>>, data |-> <<>>, count |-> 0]

NoBuf == [spikes |-> <<>>, contractors |-> <<>>, agg |-> <<>>]

Init ==
  /\ table = <<>>
  /\ state_sector_agg = {}
  /\ sector_avg = {}
  /\ contractor_agg = {}
  /\ spike_alerts = {}
  /\ contractor_flags = {}
  /\ agg_file = <<>>
  /\ spike_file = <<>>
  /\ flags_file = <<>>
  /\ now = 0
  /\ batch_order \in BOOLEAN
  /\ _state = [spike_alerts |-> <<>>, contractor_flags |-> <<>>,
               state_sector_agg |-> <<>>, last_updated |-> None]
  /\ stream_file = <<>>
  /\ read_offset = 0
  /\ _live_context_store = update_live_context(<<>>, <<>>, <<>>)
  /\ poll_pc = "sleep"
  /\ poll_buf = NoBuf
  /\ response = NoResponse
  /\ _state_lock = "free"
  /\ reader_pc = "idle"
  /\ view = NoView
  /\ field_cycle = [f \in Fields |-> 0]
  /\ _rag_answerer = "None"
  /\ lifespan_pc = "start_pathway"
  /\ query_response = NoQueryResponse
  /\ jsonl_path = Missing
  /\ jsonl_records = <<>>
  /\ _writer_started = FALSE
  /\ call_pc = [t \in Callers |-> "idle"]
  /\ write_loops = 0
  /\ truncations = 0
  /\ query_pc = QueryIdle
  /\ enriched = NoContext
  /\ context_calls = {update_live_context(<<>>, <<>>, <<>>)}

\* The engine reads `lines` from the stream file and commits the rows among
\* them: every result table is brought up to date and every sink appends the
\* changes of its table. Lines that do not fit the schema leave no row.
pw_run(lines) ==
  LET batch == get_budget_stream(lines)
      rows == Stamp(batch, Len(table))
      agg1 == _state_sector_aggregations(state_sector_agg, rows)
      avg1 == SectorAvgTable(sector_avg, rows)
      spk1 == _spike_detection(table \o rows, avg1)
      cag1 == ContractorAggTable(contractor_agg, rows)
      flg1 == _contractor_anomalies(cag1)
  IN  /\ read_offset' = read_offset + Len(lines)
      /\ IF batch = <<>>
         THEN UNCHANGED <<table, state_sector_agg, sector_avg, contractor_agg,
                          spike_alerts, contractor_flags, agg_file,
                          spike_file, flags_file, now>>
         ELSE /\ table' = table \o rows
              /\ now' = now + 1
              /\ state_sector_agg' = agg1
              /\ sector_avg' = avg1
              /\ spike_alerts' = spk1
              /\ contractor_agg' = cag1
              /\ contractor_flags' = flg1
              /\ agg_file' =
                   JsonlinesWrite(agg_file,
                                  AggLines(state_sector_agg, agg1, now + 1))
              /\ spike_file' =
                   JsonlinesWrite(spike_file,
                                  SpikeLines(spike_alerts, spk1, now + 1))
              /\ flags_file' =
                   JsonlinesWrite(flags_file,
                                  FlagLines(contractor_flags, flg1, now + 1))

\* The writer appends lines to the stream file.
_write_loop(lines) == stream_file' = stream_file \o lines

\* The writer appends a batch of events and the engine commits it.
_run_pathway(batch) ==
  /\ read_offset = Len(stream_file)
  /\ _write_loop(Lines(batch, 1))
  /\ pw_run(Lines(batch, 1))
  /\ UNCHANGED <<batch_order, auxVars, pollVars, response>>

\* A poller that adds what it reads to what it published before.
PollOutputsAccumulating ==
  /\ poll_pc = "sleep"
  /\ LET spikes == _state.spike_alerts \o _read_jsonl(spike_file)
         contractors == _state.contractor_flags \o _read_jsonl(flags_file)
         agg == _state.state_sector_agg \o _read_jsonl(agg_file)
     IN  /\ _state' = [spike_alerts |-> spikes,
                       contractor_flags |-> contractors,
                       state_sector_agg |-> agg,
                       last_updated |-> now]
         /\ _live_context_store' =
              update_live_context(spikes, contractors, Summary(agg))
  /\ UNCHANGED <<engineVars, batch_order, auxVars, stream_file, poll_pc, poll_buf,
                 response>>

\* A poller that publishes the lists and leaves last_updated as it is.
PollOutputsUnstamped ==
  /\ poll_pc = "sleep"
  /\ LET spikes == _read_jsonl(spike_file)
         contractors == _read_jsonl(flags_file)
         agg == _read_jsonl(agg_file)
     IN  /\ _state' = [spike_alerts |-> spikes,
                       contractor_flags |-> contractors,
                       state_sector_agg |-> agg,
                       last_updated |-> _state.last_updated]
         /\ _live_context_store' =
              update_live_context(spikes, contractors, Summary(agg))
  /\ UNCHANGED <<engineVars, batch_order, auxVars, stream_file, poll_pc,
                 poll_buf, response>>

\* One cycle of the poller while the engine commits nothing: read the three
\* files, publish them together, hand them to the question answerer.
_poll_outputs ==
  /\ poll_pc = "sleep"
  /\ LET spikes == _read_jsonl(spike_file)
         contractors == _read_jsonl(flags_file)
         agg == _read_jsonl(agg_file)
     IN  /\ _state' = [spike_alerts |-> spikes,
                       contractor_flags |-> contractors,
                       state_sector_agg |-> agg,
                       last_updated |-> now]
         /\ _live_context_store' =
              update_live_context(spikes, contractors, Summary(agg))
  /\ UNCHANGED <<engineVars, batch_order, auxVars, stream_file, poll_pc, poll_buf,
                 response>>

Min(a, b) == IF a <= b THEN a ELSE b

Ingest ==
  \E batch \in BatchesOver(Events, Min(MaxBatch, MaxEvents - Len(table))) :
    _run_pathway(batch)

IngestSpike ==
  \E batch \in BatchesOver(SpikeEvents,
                           Min(MaxBatch, MaxSpikeEvents - Len(table))) :
    _run_pathway(batch)

Next == Ingest \/ _poll_outputs

Spec == Init /\ [][Next]_vars

NextSpike == IngestSpike

SpecSpike == Init /\ [][NextSpike]_vars

\* The events explored when the claim is about the alerts as the average of
\* the sector moves or about the engine's schedule: one sector, a small
\* payment and a large one, committed alone or together.
MaxScheduleEvents == 6

ScheduleEvents == {e \in SpikeEvents : e.allocation \in {300, 5000}}

IngestSchedule ==
  \E batch \in BatchesOver(ScheduleEvents,
                           Min(MaxBatch, MaxScheduleEvents - Len(table))) :
    _run_pathway(batch)

NextSchedule == IngestSchedule

SpecSchedule == Init /\ [][NextSchedule]_vars

IngestServed ==
  \E batch \in ServedBatches :
    /\ now < MaxServedBatches
    /\ _run_pathway(batch)

NextServed == IngestServed \/ _poll_outputs

SpecServed == Init /\ [][NextServed]_vars

\* The end-to-end scenario: one contractor paid from one state in one sector,
\* the amounts 300, 320 and 5000 in any order and number.
MaxScenarioEvents == 3

ScenarioEvents ==
  {Ev("Tamil Nadu", "Electricity", a, "GreenInfra Ltd") : a \in {300, 320, 5000}}

IngestScenario ==
  \E batch \in BatchesOver(ScenarioEvents,
                           Min(MaxBatch, MaxScenarioEvents - Len(table))) :
    _run_pathway(batch)

NextScenario == IngestScenario \/ _poll_outputs

SpecScenario == Init /\ [][NextScenario]_vars

\* Lines that reach the stream file from elsewhere than _generate_event: a
\* well-formed payment, small or large, a payment with a negative amount, a
\* line without the allocation field, a line whose allocation is a string.
MaxRawLines == 3

RawLines ==
  LET e(a) == Ev("Tamil Nadu", "Electricity", a, "BharatBuild Corp")
  IN  {[event |-> e(300), defect |-> "none", producer |-> 1],
       [event |-> e(5000), defect |-> "none", producer |-> 1],
       [event |-> e(-300), defect |-> "none", producer |-> 1],
       [event |-> e(300), defect |-> "missing_field", producer |-> 1],
       [event |-> e(300), defect |-> "wrong_type", producer |-> 1]}

IngestRaw ==
  \E lines \in BatchesOver(RawLines,
                           Min(MaxBatch, MaxRawLines - Len(stream_file))) :
    /\ read_offset = Len(stream_file)
    /\ _write_loop(lines)
    /\ pw_run(lines)
    /\ UNCHANGED <<batch_order, auxVars, pollVars, response>>

NextRaw == IngestRaw

SpecRaw == Init /\ [][NextRaw]_vars

\* The poller step by step, the engine committing between its steps: the
\* three files are read one after the other, then published together.
PollReadSpikes ==
  /\ poll_pc = "sleep"
  /\ poll_buf' = [NoBuf EXCEPT !.spikes = _read_jsonl(spike_file)]
  /\ poll_pc' = "read_contractors"
  /\ UNCHANGED <<engineVars, batch_order, auxVars, stream_file, _state,
                 _live_context_store, response>>

PollReadContractors ==
  /\ poll_pc = "read_contractors"
  /\ poll_buf' = [poll_buf EXCEPT !.contractors = _read_jsonl(flags_file)]
  /\ poll_pc' = "read_agg"
  /\ UNCHANGED <<engineVars, batch_order, auxVars, stream_file, _state,
                 _live_context_store, response>>

PollReadAgg ==
  /\ poll_pc = "read_agg"
  /\ poll_buf' = [poll_buf EXCEPT !.agg = _read_jsonl(agg_file)]
  /\ poll_pc' = "publish"
  /\ UNCHANGED <<engineVars, batch_order, auxVars, stream_file, _state,
                 _live_context_store, response>>

\* A poller that publishes alerts and flags and forgets the aggregates.
PollPublishWithoutAgg ==
  /\ poll_pc = "publish"
  /\ _state' = [spike_alerts |-> poll_buf.spikes,
                contractor_flags |-> poll_buf.contractors,
                state_sector_agg |-> _state.state_sector_agg,
                last_updated |-> now]
  /\ _live_context_store' =
       update_live_context(poll_buf.spikes, poll_buf.contractors,
                           Summary(poll_buf.agg))
  /\ poll_pc' = "sleep"
  /\ poll_buf' = NoBuf
  /\ UNCHANGED <<engineVars, batch_order, auxVars, stream_file, response>>

PollPublish ==
  /\ poll_pc = "publish"
  /\ _state' = [spike_alerts |-> poll_buf.spikes,
                contractor_flags |-> poll_buf.contractors,
                state_sector_agg |-> poll_buf.agg,
                last_updated |-> now]
  /\ _live_context_store' =
       update_live_context(poll_buf.spikes, poll_buf.contractors,
                           Summary(poll_buf.agg))
  /\ poll_pc' = "sleep"
  /\ poll_buf' = NoBuf
  /\ UNCHANGED <<engineVars, batch_order, auxVars, stream_file, response>>

MaxPollEvents == 3

PollEvents ==
  {e \in _generate_event :
     /\ e.state = "Tamil Nadu" /\ e.sector = "Electricity"
     /\ e.contractor = "BharatBuild Corp" /\ e.allocation \in {300, 5000}}

IngestPoll ==
  \E batch \in BatchesOver(PollEvents,
                           Min(MaxBatch, MaxPollEvents - Len(table))) :
    _run_pathway(batch)

NextPoll ==
  \/ IngestPoll
  \/ PollReadSpikes
  \/ PollReadContractors
  \/ PollReadAgg
  \/ PollPublish

SpecPoll == Init /\ [][NextPoll]_vars

\* Two producers append lines to the stream file while the engine reads it:
\* both pay the same contractor under the same key, one small amounts and
\* the other large ones.
MaxPerProducer == 2

Producers == {1, 2}

ProducerEvent(p) ==
  Ev("Tamil Nadu", "Electricity", IF p = 1 THEN 300 ELSE 5000,
     "BharatBuild Corp")

Written(p) == Len(SelectSeq(stream_file, LAMBDA l : l.producer = p))

Produce(p) ==
  /\ Written(p) < MaxPerProducer
  /\ _write_loop(Lines(<<ProducerEvent(p)>>, p))
  /\ UNCHANGED <<engineVars, batch_order, auxVars, pollVars, response>>

\* An engine that reads the last line it had read once more.
UnreadLinesOverlapping(file, offset, k) ==
  SubSeq(file, IF offset = 0 THEN 1 ELSE offset, offset + k)

\* The connector in streaming mode: the next k lines not read yet.
UnreadLines(file, offset, k) == SubSeq(file, offset + 1, offset + k)

EngineCommit ==
  \E k \in 1..Min(MaxBatch, Len(stream_file) - read_offset) :
    /\ pw_run(UnreadLines(stream_file, read_offset, k))
    /\ UNCHANGED <<stream_file, batch_order, auxVars, pollVars, response>>

NextProducers == (\E p \in Producers : Produce(p)) \/ EngineCommit

SpecProducers == Init /\ [][NextProducers]_vars

\* The requests to /api/spikes while alerts are served.
MaxLimit == 3

Limits == -1..MaxLimit

\* seq[start:] of a Python list, positions counted from 0: a negative start
\* counts from the end, and a start outside the list is clipped.
PySliceFrom(seq, start) ==
  LET n == Len(seq)
      s == IF start < 0 THEN (IF n + start < 0 THEN 0 ELSE n + start)
           ELSE Min(start, n)
  IN  SubSeq(seq, s + 1, n)

\* _state["spike_alerts"][-limit:]
SpikesData(alerts, limit) == PySliceFrom(alerts, -limit)

get_spikes(limit) ==
  /\ response' = [limit |-> limit, stored |-> _state.spike_alerts,
                  data |-> SpikesData(_state.spike_alerts, limit),
                  count |-> Len(_state.spike_alerts)]
  /\ UNCHANGED <<engineVars, batch_order, auxVars, stream_file, pollVars>>

NextQuery ==
  \/ IngestServed
  \/ _poll_outputs
  \/ \E limit \in Limits : get_spikes(limit)

SpecQuery == Init /\ [][NextQuery]_vars

\* The poller and the dashboard around _state_lock, assignment by assignment.
\* The poller reads the three files as above, then takes the lock, replaces
\* the four fields one after the other, releases the lock and hands the
\* lists to the question answerer.
MaxCycles == 2

PollLock ==
  /\ poll_pc = "publish"
  /\ _state_lock = "free"
  /\ field_cycle["last_updated"] < MaxCycles
  /\ _state_lock' = "poller"
  /\ poll_pc' = "set_spike_alerts"
  /\ UNCHANGED <<engineVars, batch_order, stream_file, _state,
                 _live_context_store, poll_buf, response, reader_pc, view,
                 field_cycle, startupVars, jsonlVars, writerVars,
                 contextVars>>

PollSet(pc, f, value, next) ==
  /\ poll_pc = pc
  /\ _state' = [_state EXCEPT ![f] = value]
  /\ field_cycle' = [field_cycle EXCEPT ![f] = @ + 1]
  /\ poll_pc' = next
  /\ UNCHANGED <<engineVars, batch_order, stream_file, _live_context_store,
                 poll_buf, response, reader_pc, view, startupVars, jsonlVars,
                 writerVars,
                 contextVars>>

PollSetSpikes ==
  /\ PollSet("set_spike_alerts", "spike_alerts", poll_buf.spikes,
             "set_contractor_flags")
  /\ UNCHANGED _state_lock

PollSetContractors ==
  /\ PollSet("set_contractor_flags", "contractor_flags",
             poll_buf.contractors, "set_state_sector_agg")
  /\ UNCHANGED _state_lock

PollSetAgg ==
  /\ PollSet("set_state_sector_agg", "state_sector_agg", poll_buf.agg,
             "set_last_updated")
  /\ UNCHANGED _state_lock

\* The last assignment, after which the with block ends.
PollSetUpdated ==
  /\ PollSet("set_last_updated", "last_updated", now, "update_context")
  /\ _state_lock' = "free"

PollUpdateContext ==
  /\ poll_pc = "update_context"
  /\ _live_context_store' =
       update_live_context(poll_buf.spikes, poll_buf.contractors,
                           Summary(poll_buf.agg))
  /\ poll_buf' = NoBuf
  /\ poll_pc' = "sleep"
  /\ UNCHANGED <<engineVars, batch_order, stream_file, _state, response,
                 auxVars>>

\* The order in which dashboard reads the fields inside its with block.
ReadOrder ==
  <<"spike_alerts", "contractor_flags", "state_sector_agg", "last_updated">>

\* A dashboard that does not take the lock.
DashboardEnterUnlocked ==
  /\ reader_pc = "idle"
  /\ reader_pc' = ReadOrder[1]
  /\ view' = NoView
  /\ UNCHANGED <<engineVars, batch_order, stream_file, pollVars, response,
                 _state_lock, field_cycle, startupVars, jsonlVars, writerVars,
                 contextVars>>

DashboardEnter ==
  /\ reader_pc = "idle"
  /\ _state_lock = "free"
  /\ _state_lock' = "reader"
  /\ reader_pc' = ReadOrder[1]
  /\ view' = NoView
  /\ UNCHANGED <<engineVars, batch_order, stream_file, pollVars, response,
                 field_cycle, startupVars, jsonlVars, writerVars,
                 contextVars>>

\* One read of a field of _state; the with block ends after the last one.
DashboardRead ==
  /\ reader_pc # "idle"
  /\ view' = [view EXCEPT ![reader_pc] = field_cycle[reader_pc]]
  /\ IF reader_pc = ReadOrder[Len(ReadOrder)]
     THEN /\ reader_pc' = "idle"
          /\ _state_lock' = IF _state_lock = "reader" THEN "free"
                            ELSE _state_lock
     ELSE /\ reader_pc' = ReadOrder[IndexOf(ReadOrder, reader_pc) + 1]
          /\ UNCHANGED _state_lock
  /\ UNCHANGED <<engineVars, batch_order, stream_file, pollVars, response,
                 field_cycle, startupVars, jsonlVars, writerVars,
                 contextVars>>

\* The engine commits one event at a time meanwhile.
MaxLockEvents == 2

IngestLock ==
  \E e \in PollEvents :
    /\ Len(table) < MaxLockEvents
    /\ _run_pathway(<<e>>)

NextLock ==
  \/ IngestLock
  \/ PollReadSpikes
  \/ PollReadContractors
  \/ PollReadAgg
  \/ PollLock
  \/ PollSetSpikes
  \/ PollSetContractors
  \/ PollSetAgg
  \/ PollSetUpdated
  \/ PollUpdateContext
  \/ DashboardEnter
  \/ DashboardRead

SpecLock == Init /\ [][NextLock]_vars

\* update_live_context and query_budget_ai around _live_context_store, which
\* no lock protects: the poller leaves its with block, then assigns the three
\* keys one after the other; the query tests each key and, when the value is
\* not empty, reads it again to print it.
UpdateContextSet(pc, k, value, next) ==
  /\ poll_pc = pc
  /\ _live_context_store' = [_live_context_store EXCEPT ![k] = value]
  /\ poll_pc' = next
  /\ UNCHANGED <<engineVars, batch_order, stream_file, _state, response,
                 readerVars, startupVars, jsonlVars, writerVars, query_pc,
                 enriched>>

\* The call is entered with the three lists of this poll cycle.
UpdateContextSpikes ==
  /\ UpdateContextSet("update_context", "spike_alerts",
                      LastN(poll_buf.spikes, ContextAlerts),
                      "update_contractor_flags")
  /\ context_calls' =
       context_calls \cup {update_live_context(poll_buf.spikes,
                                               poll_buf.contractors,
                                               Summary(poll_buf.agg))}
  /\ UNCHANGED poll_buf

UpdateContextFlags ==
  /\ UpdateContextSet("update_contractor_flags", "contractor_flags",
                      poll_buf.contractors, "update_state_sector_summary")
  /\ UNCHANGED <<poll_buf, context_calls>>

\* The last assignment, after which the poller sleeps.
UpdateContextSummary ==
  /\ UpdateContextSet("update_state_sector_summary", "state_sector_summary",
                      Summary(poll_buf.agg), "sleep")
  /\ poll_buf' = NoBuf
  /\ UNCHANGED context_calls

\* The order in which query_budget_ai goes through the keys.
ContextOrder == <<"spike_alerts", "contractor_flags", "state_sector_summary">>

\* What follows key k: the next key, or the call of the answerer.
AfterKey(k) ==
  IF k = ContextOrder[Len(ContextOrder)]
  THEN [step |-> "answer", key |-> ""]
  ELSE [step |-> "test", key |-> ContextOrder[IndexOf(ContextOrder, k) + 1]]

QueryRest ==
  <<engineVars, batch_order, stream_file, pollVars, response, readerVars,
    startupVars, jsonlVars, writerVars, context_calls>>

\* query_budget_ai is called with an answerer; without one it returns at
\* once and reads no context.
QueryEnter ==
  /\ query_pc = QueryIdle
  /\ query_pc' = [step |-> "test", key |-> ContextOrder[1]]
  /\ enriched' = NoContext
  /\ UNCHANGED QueryRest

\* if _live_context_store[k]: an empty value leaves the part out.
QueryTest ==
  /\ query_pc.step = "test"
  /\ LET k == query_pc.key
     IN  IF _live_context_store[k] = <<>>
         THEN /\ enriched' = [enriched EXCEPT ![k] = <<>>]
              /\ query_pc' = AfterKey(k)
         ELSE /\ query_pc' = [step |-> "dump", key |-> k]
              /\ UNCHANGED enriched
  /\ UNCHANGED QueryRest

\* json.dumps(_live_context_store[k]): the value is read once more.
QueryDump ==
  /\ query_pc.step = "dump"
  /\ LET k == query_pc.key
     IN  /\ enriched' = [enriched EXCEPT ![k] = _live_context_store[k]]
         /\ query_pc' = AfterKey(k)
  /\ UNCHANGED QueryRest

\* answerer.answer(enriched_question)
QueryAnswer ==
  /\ query_pc.step = "answer"
  /\ query_pc' = QueryIdle
  /\ UNCHANGED <<enriched, QueryRest>>

NextContext ==
  \/ IngestLock
  \/ PollReadSpikes
  \/ PollReadContractors
  \/ PollReadAgg
  \/ PollLock
  \/ PollSetSpikes
  \/ PollSetContractors
  \/ PollSetAgg
  \/ PollSetUpdated
  \/ UpdateContextSpikes
  \/ UpdateContextFlags
  \/ UpdateContextSummary
  \/ QueryEnter
  \/ QueryTest
  \/ QueryDump
  \/ QueryAnswer

SpecContext == Init /\ [][NextContext]_vars

\* The startup of the application: the engine thread, the question answerer,
\* the poller thread; requests are served once the startup is over.
LifespanStartPathway ==
  /\ lifespan_pc = "start_pathway"
  /\ lifespan_pc' = "build_rag"
  /\ UNCHANGED <<engineVars, batch_order, stream_file, pollVars, response,
                 readerVars, _rag_answerer, query_response, jsonlVars,
                 writerVars,
                 contextVars>>

\* A startup without the try block: an exception ends it.
LifespanBuildRagUnguarded ==
  /\ lifespan_pc = "build_rag"
  /\ \E outcome \in {"answerer", "None", "raises"} :
       /\ _rag_answerer' = IF outcome = "raises" THEN _rag_answerer
                           ELSE outcome
       /\ lifespan_pc' = IF outcome = "raises" THEN "failed"
                         ELSE "start_poller"
  /\ UNCHANGED <<engineVars, batch_order, stream_file, pollVars, response,
                 readerVars, query_response, jsonlVars, writerVars,
                 contextVars>>

\* build_document_store and build_rag_answerer give an answerer, give None,
\* or raise; the except branch sets _rag_answerer to None.
LifespanBuildRag ==
  /\ lifespan_pc = "build_rag"
  /\ \E outcome \in {"answerer", "None", "raises"} :
       _rag_answerer' = IF outcome = "raises" THEN "None" ELSE outcome
  /\ lifespan_pc' = "start_poller"
  /\ UNCHANGED <<engineVars, batch_order, stream_file, pollVars, response,
                 readerVars, query_response, jsonlVars, writerVars,
                 contextVars>>

LifespanStartPoller ==
  /\ lifespan_pc = "start_poller"
  /\ lifespan_pc' = "running"
  /\ UNCHANGED <<engineVars, batch_order, stream_file, pollVars, response,
                 readerVars, _rag_answerer, query_response, jsonlVars,
                 writerVars,
                 contextVars>>

\* POST /query: 503 without an answerer, else the answer or, when the
\* answerer raises, 500.
ai_query ==
  /\ lifespan_pc = "running"
  /\ IF _rag_answerer = "None"
     THEN query_response' =
            [status_code |-> 503, rag_ready |-> FALSE, invoked |-> FALSE]
     ELSE \E code \in {200, 500} :
            query_response' =
              [status_code |-> code, rag_ready |-> TRUE, invoked |-> TRUE]
  /\ UNCHANGED <<engineVars, batch_order, stream_file, pollVars, response,
                 readerVars, _rag_answerer, lifespan_pc, jsonlVars,
                 writerVars,
                 contextVars>>

NextStartup ==
  \/ LifespanStartPathway
  \/ LifespanBuildRag
  \/ LifespanStartPoller
  \/ (lifespan_pc # "start_pathway" /\ IngestPoll)
  \/ (lifespan_pc = "running" /\ _poll_outputs)
  \/ ai_query

SpecStartup == Init /\ [][NextStartup]_vars

\* Calls of _read_jsonl on files of any content: two records, a blank line,
\* a line that is not JSON, in any order and number; or no file.
MaxFileLines == 3

FileLines ==
  {[kind |-> "json", value |-> [contractor |-> c]] : c \in Range(CONTRACTORS)}
    \cup {[kind |-> k, value |-> [contractor |-> ""]] :
            k \in {"blank", "undecodable"}}

Paths ==
  {Missing, [exists |-> TRUE, lines |-> <<>>]}
    \cup {[exists |-> TRUE, lines |-> l] :
            l \in BatchesOver(FileLines, MaxFileLines)}

CallReadJsonl ==
  \E path \in Paths :
    /\ jsonl_path' = path
    /\ jsonl_records' = ReadJsonlPath(path)
    /\ UNCHANGED <<engineVars, batch_order, stream_file, pollVars, response,
                   readerVars, startupVars, writerVars,
                   contextVars>>

NextReadJsonl == CallReadJsonl

SpecReadJsonl == Init /\ [][NextReadJsonl]_vars

\* The writers, the engine and the poller together, each scheduled fairly:
\* a writer that can write does, the engine reads what is unread, the poller
\* goes through its cycle again and again.
MaxLiveLines == 2

WriteLive(p) ==
  /\ Len(stream_file) < MaxLiveLines
  /\ Produce(p)

Poll == PollReadSpikes \/ PollReadContractors \/ PollReadAgg \/ PollPublish

NextLive == (\E p \in Producers : WriteLive(p)) \/ EngineCommit \/ Poll

\* Weak fairness of the engine: EngineCommit is enabled exactly when the
\* stream file has unread lines.
EngineFair ==
  []<>(read_offset = Len(stream_file)) \/ []<><<EngineCommit>>_vars

SpecLive ==
  /\ Init
  /\ [][NextLive]_vars
  /\ \A p \in Producers : WF_vars(WriteLive(p))
  /\ EngineFair
  /\ WF_vars(Poll)

\* Payments of one sector among which some are of amount zero.
MaxZeroEvents == 5

ZeroEvents ==
  {Ev("Tamil Nadu", "Electricity", a, "BharatBuild Corp") : a \in {0, 5000}}

IngestZero ==
  \E batch \in BatchesOver(ZeroEvents,
                           Min(MaxBatch, MaxZeroEvents - Len(table))) :
    _run_pathway(batch)

NextZero == IngestZero

SpecZero == Init /\ [][NextZero]_vars

\* The callers of get_budget_stream, statement by statement through
\* _start_stream_writer: the test of _writer_started, its assignment, the
\* opening of the stream file for writing with the seed rows, the start of
\* the writer loop; and the loops appending events.
MaxWriterLines == 7

Seed(t) ==
  Lines([i \in 1..SeedCount |->
           Ev("Tamil Nadu", "Electricity", 300, "GreenInfra Ltd")], t)

WriterRest ==
  <<engineVars, batch_order, pollVars, response, readerVars, startupVars,
    jsonlVars, contextVars>>

CallGetBudgetStream(t) ==
  /\ call_pc[t] = "idle"
  /\ call_pc' = [call_pc EXCEPT ![t] = "check"]
  /\ UNCHANGED <<WriterRest, stream_file, _writer_started, write_loops,
                 truncations>>

CheckWriterStarted(t) ==
  /\ call_pc[t] = "check"
  /\ call_pc' = [call_pc EXCEPT ![t] = IF _writer_started THEN "idle"
                                       ELSE "set"]
  /\ UNCHANGED <<WriterRest, stream_file, _writer_started, write_loops,
                 truncations>>

SetWriterStarted(t) ==
  /\ call_pc[t] = "set"
  /\ _writer_started' = TRUE
  /\ call_pc' = [call_pc EXCEPT ![t] = "seed"]
  /\ UNCHANGED <<WriterRest, stream_file, write_loops, truncations>>

\* open(STREAM_FILE, "w"): what the file held is gone, the seed rows follow.
SeedStreamFile(t) ==
  /\ call_pc[t] = "seed"
  /\ stream_file' = Seed(t)
  /\ truncations' = truncations + 1
  /\ call_pc' = [call_pc EXCEPT ![t] = "spawn"]
  /\ UNCHANGED <<WriterRest, _writer_started, write_loops>>

StartWriteLoop(t) ==
  /\ call_pc[t] = "spawn"
  /\ write_loops' = write_loops + 1
  /\ call_pc' = [call_pc EXCEPT ![t] = "idle"]
  /\ UNCHANGED <<WriterRest, stream_file, _writer_started, truncations>>

WriteLoopStep ==
  /\ write_loops >= 1
  /\ Len(stream_file) < MaxWriterLines
  /\ \E e \in PollEvents : _write_loop(Lines(<<e>>, 1))
  /\ UNCHANGED <<WriterRest, writerVars>>

NextWriter ==
  \/ \E t \in Callers :
       \/ CallGetBudgetStream(t)
       \/ CheckWriterStarted(t)
       \/ SetWriterStarted(t)
       \/ SeedStreamFile(t)
       \/ StartWriteLoop(t)
  \/ WriteLoopStep

SpecWriter == Init /\ [][NextWriter]_vars

\* ------------------------------------------------------------------------
\* Reference quantities, computed from the whole input table
\* ------------------------------------------------------------------------
RECURSIVE SumAlloc(_, _)
SumAlloc(tbl, ids) ==
  IF ids = {} THEN 0
  ELSE LET i == CHOOSE x \in ids : TRUE
       IN  tbl[i].allocation + SumAlloc(tbl, ids \ {i})

KeyIds(tbl, st, se) ==
  {i \in DOMAIN tbl : tbl[i].state = st /\ tbl[i].sector = se}

SectorIds(tbl, se) == {i \in DOMAIN tbl : tbl[i].sector = se}

ContractorIds(tbl, c) == {i \in DOMAIN tbl : tbl[i].contractor = c}

\* ------------------------------------------------------------------------
\* Properties
\* ------------------------------------------------------------------------

\* C1: for every (state, sector) key the aggregate's total_allocation is the
\* sum of the allocations of exactly the events with that key seen so far and
\* event_count is their number; a key without events has no row.
C1_TotalsAreSums ==
  \A st \in Range(STATES), se \in Range(SECTORS) :
    LET ids == KeyIds(table, st, se)
        rows == {r \in state_sector_agg : r.state = st /\ r.sector = se}
    IN  IF ids = {} THEN rows = {}
        ELSE /\ Cardinality(rows) = 1
             /\ \A r \in rows :
                  /\ r.total_allocation = SumAlloc(table, ids)
                  /\ r.event_count = Cardinality(ids)

\* Two keys of the same state hold events, one of them events of different
\* amounts.
C1_Witness ==
  \E st \in Range(STATES) :
    /\ KeyIds(table, st, "Water") # {}
    /\ \E i, j \in KeyIds(table, st, "Electricity") :
         table[i].allocation # table[j].allocation

\* C2: every (state, sector) aggregate row, in the table and on every line
\* written for it, has event_count >= 1 and avg_allocation equal to its
\* total_allocation divided by its event_count.
AvgConsistent(r) ==
  /\ r.event_count >= 1
  /\ r.avg_allocation.den >= 1
  /\ r.avg_allocation.num * r.event_count
       = r.total_allocation * r.avg_allocation.den

C2_AverageIsTotalOverCount ==
  /\ \A r \in state_sector_agg : AvgConsistent(r)
  /\ \A i \in DOMAIN agg_file : AvgConsistent(agg_file[i])

\* A row whose average is not a whole number, after an update of the row.
C2_Witness ==
  \E r \in state_sector_agg :
    /\ r.event_count >= 3
    /\ r.avg_allocation.den > 1

HasAlert(i) == \E r \in spike_alerts : r.id = i

\* C4: an event whose allocation is exactly SPIKE_MULTIPLIER times the
\* average of its sector has no spike alert; an event whose allocation is
\* greater than SPIKE_MULTIPLIER times that average has one.
C4_StrictSpikeTest ==
  \A i \in DOMAIN table :
    LET ids == SectorIds(table, table[i].sector)
        n == Cardinality(ids)
        total == SumAlloc(table, ids)
    IN  /\ table[i].allocation * n = SPIKE_MULTIPLIER * total => ~HasAlert(i)
        /\ table[i].allocation * n > SPIKE_MULTIPLIER * total => HasAlert(i)

\* An event sits exactly on the boundary.
C4_Witness ==
  \E i \in DOMAIN table :
    LET ids == SectorIds(table, table[i].sector)
    IN  /\ table[i].allocation > 0
        /\ table[i].allocation * Cardinality(ids)
             = SPIKE_MULTIPLIER * SumAlloc(table, ids)

\* The spike test of event i against the average of its sector over the
\* events up to and including i.
SpikeAtArrival(i) ==
  LET ids == {j \in SectorIds(table, table[i].sector) : j <= i}
  IN  table[i].allocation * Cardinality(ids)
        > SPIKE_MULTIPLIER * SumAlloc(table, ids)

\* The spike test of event i against the current average of its sector.
SpikeNow(i) ==
  LET ids == SectorIds(table, table[i].sector)
  IN  table[i].allocation * Cardinality(ids)
        > SPIKE_MULTIPLIER * SumAlloc(table, ids)

\* C5 as claimed: an event has a spike alert if and only if it exceeded
\* SPIKE_MULTIPLIER times the sector average at its arrival, whatever arrived
\* later.
C5_DecidedAtArrival ==
  \A i \in DOMAIN table : HasAlert(i) <=> SpikeAtArrival(i)

\* C5 as amended: an event has a spike alert if and only if it exceeds
\* SPIKE_MULTIPLIER times the current average of its sector, taken over all
\* events of the sector so far, the event itself and the later ones included.
C5_DecidedByCurrentAverage ==
  \A i \in DOMAIN table : HasAlert(i) <=> SpikeNow(i)

\* An event that was no spike when it arrived has an alert now, and the
\* sector holds events of two states.
C5_Witness ==
  \E i \in DOMAIN table :
    /\ HasAlert(i)
    /\ ~SpikeAtArrival(i)
    /\ \E j \in SectorIds(table, table[i].sector) :
         table[j].state # table[i].state

IsPrefix(a, b) ==
  /\ Len(a) <= Len(b)
  /\ \A i \in DOMAIN a : a[i] = b[i]

\* The line the sink writes when row r leaves or enters the spike table.
SpikeLineOf(r, t, d) == SpikeLine([row |-> r, time |-> t, diff |-> d])

\* C6 as claimed: every row of the spike-alert table is still in the table,
\* with the same sector_avg, spike_ratio and reason, after every later event.
C6_AlertsNeverChange ==
  [][\A r \in spike_alerts : r \in spike_alerts']_vars

\* C6 as amended: the spike-alert file is append-only, every line once written
\* stays in place unchanged; an alert row stays in the table unchanged through
\* every commit that brings no event of its sector; a commit that changes the
\* average of its sector withdraws the row and writes that as a diff -1 line.
C6_FileAppendOnly ==
  [][ /\ IsPrefix(spike_file, spike_file')
      /\ \A r \in spike_alerts :
           LET arrived == {table'[j].sector :
                             j \in (Len(table) + 1)..Len(table')}
           IN  /\ r.sector \notin arrived => r \in spike_alerts'
               /\ r \notin spike_alerts' =>
                    \E k \in (Len(spike_file) + 1)..Len(spike_file') :
                      spike_file'[k] = SpikeLineOf(r, now', -1) ]_vars

\* An alert was withdrawn or rewritten, and an alert stands.
C6_Witness ==
  /\ spike_alerts # {}
  /\ \E k \in DOMAIN spike_file : spike_file[k].diff = -1

\* The event a served alert record is about.
EventOf(rec) ==
  <<rec.state, rec.sector, rec.allocation, rec.contractor, rec.timestamp>>

\* C7: the served spike alerts hold at most one record per triggering event.
C7_OneRecordPerEvent ==
  \A p, q \in DOMAIN _state.spike_alerts :
    p # q => EventOf(_state.spike_alerts[p]) # EventOf(_state.spike_alerts[q])

\* Arrival position of the event of a served record.
Arrival(rec) ==
  LET ids == {i \in DOMAIN table :
                <<table[i].state, table[i].sector, table[i].allocation,
                  table[i].contractor, table[i].timestamp>> = EventOf(rec)}
  IN  CHOOSE i \in ids : \A j \in ids : i <= j

\* Position of the first served record about the event of rec.
FirstPos(rec) ==
  LET ps == {p \in DOMAIN _state.spike_alerts :
               EventOf(_state.spike_alerts[p]) = EventOf(rec)}
  IN  CHOOSE p \in ps : \A q \in ps : p <= q

\* C8 as claimed: alerts are served in the arrival order of their events.
C8_ArrivalOrder ==
  \A p, q \in DOMAIN _state.spike_alerts :
    Arrival(_state.spike_alerts[p]) < Arrival(_state.spike_alerts[q])
      => FirstPos(_state.spike_alerts[p]) < FirstPos(_state.spike_alerts[q])

\* C8 as amended: records are served in the order of their emission, by
\* non-decreasing commit time, so the last entries are the records emitted
\* most recently.
C8_EmissionOrder ==
  \A p, q \in DOMAIN _state.spike_alerts :
    p < q => _state.spike_alerts[p].time <= _state.spike_alerts[q].time

\* Alerts of two different events are served, from different commits.
C8_Witness ==
  \E p, q \in DOMAIN _state.spike_alerts :
    /\ EventOf(_state.spike_alerts[p]) # EventOf(_state.spike_alerts[q])
    /\ _state.spike_alerts[p].time # _state.spike_alerts[q].time

FlaggedIn(flags, c) == \E r \in flags : r.contractor = c

\* C9: the flag table holds a contractor if and only if the sum of the
\* allocations paid to that contractor is strictly greater than
\* CONTRACTOR_ALERT_CRORES.
C9_FlaggedIffAboveThreshold ==
  \A c \in Range(CONTRACTORS) :
    FlaggedIn(contractor_flags, c)
      <=> SumAlloc(table, ContractorIds(table, c)) > CONTRACTOR_ALERT_CRORES

\* A contractor stands exactly on the threshold after a payment.
C9_Witness ==
  \E c \in Range(CONTRACTORS) :
    /\ SumAlloc(table, ContractorIds(table, c)) = CONTRACTOR_ALERT_CRORES
    /\ ~FlaggedIn(contractor_flags, c)

SnapshotCurrent == _state.last_updated = now

\* C11: the served contractor flags hold at most one record per contractor,
\* and a snapshot taken after the latest commit shows every flagged
\* contractor with its latest total_spend and payment_count.
C11_OneFlagPerContractor ==
  LET flags == _state.contractor_flags
  IN  /\ \A i, j \in DOMAIN flags :
           flags[i].contractor = flags[j].contractor => i = j
      /\ SnapshotCurrent =>
           \A i \in DOMAIN flags :
             \E r \in contractor_agg :
               /\ r.contractor = flags[i].contractor
               /\ r.total_spend = flags[i].total_spend
               /\ r.payment_count = flags[i].payment_count

AggRowOf(rec) ==
  [state |-> rec.state, sector |-> rec.sector,
   total_allocation |-> rec.total_allocation,
   event_count |-> rec.event_count, avg_allocation |-> rec.avg_allocation]

\* C12: the served aggregates hold exactly one record per (state, sector)
\* key seen so far, and a snapshot taken after the latest commit shows, in the
\* served list and in the summary for the live context, every key with its
\* current total, count and average.
C12_OneAggregatePerKey ==
  LET agg == _state.state_sector_agg
      summary == _live_context_store.state_sector_summary
  IN  /\ \A i, j \in DOMAIN agg :
           (agg[i].state = agg[j].state /\ agg[i].sector = agg[j].sector)
             => i = j
      /\ SnapshotCurrent =>
           /\ {AggRowOf(agg[i]) : i \in DOMAIN agg} = state_sector_agg
           /\ DOMAIN summary = {<<r.state, r.sector>> : r \in state_sector_agg}
           /\ \A r \in state_sector_agg :
                /\ summary[<<r.state, r.sector>>].total_allocation
                     = r.total_allocation
                /\ summary[<<r.state, r.sector>>].event_count = r.event_count
                /\ summary[<<r.state, r.sector>>].avg_allocation
                     = r.avg_allocation

Allocations(tbl) == [i \in DOMAIN tbl |-> tbl[i].allocation]

\* C13: after the events 300, 320, 5000 of one key and one contractor, in
\* this order, there is no spike alert (5000 is not above 4 x 5620/3), the
\* aggregate of the key is total 5620, count 3, and the contractor is flagged
\* with total_spend 5620, payment_count 3, in the tables and in a snapshot
\* taken afterwards; after the first two events the contractor is not flagged.
C13_EndToEndScenario ==
  /\ Allocations(table) = <<300, 320, 5000>> =>
       /\ spike_alerts = {}
       /\ state_sector_agg =
            {[state |-> "Tamil Nadu", sector |-> "Electricity",
              total_allocation |-> 5620, event_count |-> 3,
              avg_allocation |-> Div(5620, 3)]}
       /\ \E r \in contractor_flags :
            /\ contractor_flags = {r}
            /\ r.contractor = "GreenInfra Ltd"
            /\ r.total_spend = 5620
            /\ r.payment_count = 3
       /\ SnapshotCurrent =>
            /\ _state.spike_alerts = <<>>
            /\ Len(_state.contractor_flags) = 1
            /\ _state.contractor_flags[1].total_spend = 5620
            /\ _state.contractor_flags[1].payment_count = 3
  /\ Allocations(table) = <<300, 320>> =>
       /\ contractor_flags = {}
       /\ SnapshotCurrent => _state.contractor_flags = <<>>

C13_Witness ==
  /\ Allocations(table) = <<300, 320, 5000>>
  /\ SnapshotCurrent
  /\ Len(_state.contractor_flags) = 1

Malformed(line) == line.defect # "none" \/ line.event.allocation < 0

\* C14: when only malformed lines (a missing field, a wrong type, a negative
\* allocation) are ingested, the input table, the aggregates, the averages,
\* the contractor totals, the alerts and the flags are all unchanged.
C14_MalformedRejected ==
  [][(/\ Len(stream_file') > Len(stream_file)
      /\ \A i \in (Len(stream_file) + 1)..Len(stream_file') :
           Malformed(stream_file'[i]))
       => UNCHANGED <<table, state_sector_agg, sector_avg, contractor_agg,
                      spike_alerts, contractor_flags>>]_vars

\* C15: a poll that follows a snapshot with no commit in between publishes
\* the same spike alerts, contractor flags and aggregates, in the same order,
\* and hands the same context to the question answerer.
C15_SnapshotIdempotent ==
  [][(SnapshotCurrent /\ UNCHANGED <<spike_file, flags_file, agg_file>>)
       => /\ _state'.spike_alerts = _state.spike_alerts
          /\ _state'.contractor_flags = _state.contractor_flags
          /\ _state'.state_sector_agg = _state.state_sector_agg
          /\ _live_context_store' = _live_context_store]_vars

C15_Witness ==
  /\ SnapshotCurrent
  /\ _state.contractor_flags # <<>>
  /\ Len(_state.state_sector_agg) > 1

\* The lines a sink had written when commit k was done.
UpTo(file, k) == SelectSeq(file, LAMBDA l : l.time <= k)

\* C16: the published aggregates, flags and alerts are the content of the
\* three files after one and the same commit, i.e. they reflect one and the
\* same prefix of the event stream.
C16_NoTornSnapshot ==
  \E k \in 0..now :
    /\ _state.spike_alerts = _read_jsonl(UpTo(spike_file, k))
    /\ _state.contractor_flags = _read_jsonl(UpTo(flags_file, k))
    /\ _state.state_sector_agg = _read_jsonl(UpTo(agg_file, k))

StreamEvents == [i \in DOMAIN stream_file |-> stream_file[i].event]

RECURSIVE OneByOne(_, _)
OneByOne(tbl, k) ==
  IF k = 0 THEN [avg |-> {}, spk |-> {}, lines |-> <<>>]
  ELSE LET p == OneByOne(tbl, k - 1)
           avg1 == SectorAvgTable(p.avg, <<tbl[k]>>)
           spk1 == _spike_detection(SubSeq(tbl, 1, k), avg1)
       IN  [avg |-> avg1, spk |-> spk1,
            lines |-> JsonlinesWrite(p.lines, SpikeLines(p.spk, spk1, k))]

\* A line without what tells when and how it was written.
Stripped(l) == [l EXCEPT !.time = 0, !.diff = 0]

WithoutTime(lines) == [i \in DOMAIN lines |-> [lines[i] EXCEPT !.time = 0]]

\* Insertions less retractions of the alert x in the file.
Net(file, x) ==
  Cardinality({i \in DOMAIN file : Stripped(file[i]) = x /\ file[i].diff = 1})
    - Cardinality({i \in DOMAIN file :
                     Stripped(file[i]) = x /\ file[i].diff = -1})

\* C18 as stated: for a sequence of events of one sector, the spike alerts
\* emitted are the same, in the same order, whatever the schedule, hence the
\* same as in the run that commits the events one by one.
C18_SameAlertsAnySchedule ==
  WithoutTime(spike_file) = WithoutTime(OneByOne(table, Len(table)).lines)

\* C18: for a sequence of events of one sector, the current spike table is
\* the same whatever the schedule, hence the same as in the run that commits
\* the events one by one, and the alerts emitted and not retracted since are
\* the rows of this table.
C18_SameTableAnySchedule ==
  /\ spike_alerts = OneByOne(table, Len(table)).spk
  /\ LET line(r) == Stripped(SpikeLine([row |-> r, time |-> 0, diff |-> 0]))
         emitted == {Stripped(spike_file[i]) : i \in DOMAIN spike_file}
     IN  \A x \in emitted \cup {line(r) : r \in spike_alerts} :
           Net(spike_file, x)
             = Cardinality({r \in spike_alerts : line(r) = x})

\* Two events were committed at once and there are alerts.
C18_Witness ==
  /\ now < Len(table)
  /\ spike_alerts # {}
  /\ spike_file # WithoutTime(OneByOne(table, Len(table)).lines)
  /\ \E i \in DOMAIN spike_file : spike_file[i].diff = -1

\* C19: for a limit >= 0 and n stored alerts, get_spikes returns exactly the
\* min(limit, n) most recent alerts, in stored order, and count = n.
C19_MostRecentLimit ==
  response.limit >= 0 =>
    LET n == Len(response.stored)
        m == Min(response.limit, n)
    IN  /\ Len(response.data) = m
        /\ response.data = SubSeq(response.stored, n - m + 1, n)
        /\ response.count = n

\* The average of all events of the sector ingested so far.
CurrentAvg(se) ==
  Div(SumAlloc(table, SectorIds(table, se)),
      Cardinality(SectorIds(table, se)))

\* C20: the spike table holds exactly the events of the whole history whose
\* allocation exceeds SPIKE_MULTIPLIER x the current average of their sector,
\* one row per such event with the event's columns, and every row carries
\* this current average as sector_avg, whenever the average has changed.
C20_TableFollowsCurrentAverage ==
  /\ \A r \in spike_alerts :
       /\ r.id \in DOMAIN table
       /\ r.state = table[r.id].state
       /\ r.sector = table[r.id].sector
       /\ r.allocation = table[r.id].allocation
       /\ r.contractor = table[r.id].contractor
       /\ r.sector_avg = CurrentAvg(r.sector)
       /\ r.allocation * r.sector_avg.den
            > SPIKE_MULTIPLIER * r.sector_avg.num
  /\ \A i \in DOMAIN table :
       table[i].allocation * CurrentAvg(table[i].sector).den
         > SPIKE_MULTIPLIER * CurrentAvg(table[i].sector).num
       => Cardinality({r \in spike_alerts : r.id = i}) = 1

\* An alert for an event that was no spike on arrival, carrying the average
\* of six events.
C20_Witness ==
  /\ Len(table) = 6
  /\ \E r \in spike_alerts :
       r.id < SeedCount /\ r.sector_avg = CurrentAvg(r.sector)

\* The rows a step adds to the input table.
NewRows == {table'[i] : i \in (Len(table) + 1)..Len(table')}

\* Rows of `old` and `new` that satisfy `untouched` are the same rows.
SameWhere(old, new, untouched(_)) ==
  {r \in old : untouched(r)} = {r \in new : untouched(r)}

\* C21: ingesting events changes only the aggregates of their (state, sector)
\* keys, the averages and alerts of their sectors and the totals, counts and
\* flags of their contractors; every other aggregate, sector average, alert,
\* contractor total and flag is as it was.
C21_Frame ==
  [][LET keyFree(r) ==
           \A e \in NewRows : ~(e.state = r.state /\ e.sector = r.sector)
         sectorFree(r) == \A e \in NewRows : e.sector # r.sector
         contractorFree(r) == \A e \in NewRows : e.contractor # r.contractor
     IN  /\ SameWhere(state_sector_agg, state_sector_agg', keyFree)
         /\ SameWhere(sector_avg, sector_avg', sectorFree)
         /\ SameWhere(spike_alerts, spike_alerts', sectorFree)
         /\ SameWhere(contractor_agg, contractor_agg', contractorFree)
         /\ SameWhere(contractor_flags, contractor_flags', contractorFree)]_vars

\* Two keys, two sectors and two contractors are present, one is flagged.
C21_Witness ==
  /\ Cardinality(state_sector_agg) >= 2
  /\ Cardinality(sector_avg) = 2
  /\ Cardinality(contractor_agg) = 2
  /\ contractor_flags # {}
  /\ table[Len(table)].contractor \notin {r.contractor : r \in contractor_flags}

\* C22: the poller replaces the four fields of _state holding _state_lock,
\* so outside its locked section all four come from one poll cycle, and a
\* reader holding the lock reads all of them from one and the same cycle.
C22_OneCyclePerView ==
  /\ _state_lock # "poller" =>
       \A f, g \in Fields : field_cycle[f] = field_cycle[g]
  /\ \A f, g \in Fields :
       (view[f] # None /\ view[g] # None) => view[f] = view[g]

\* The dashboard has read a whole snapshot of the first cycle and the poller
\* is halfway through replacing it.
C22_Witness ==
  /\ \A f \in Fields : view[f] = 1
  /\ field_cycle["spike_alerts"] = 2
  /\ field_cycle["last_updated"] = 1
  /\ _state.contractor_flags # <<>>

\* C23: while no poll has completed, last_updated is None, the three served
\* lists are empty and a request to /api/spikes is answered with no data and
\* count 0; once last_updated is set it is never None again.
C23_NotReadyUntilFirstPoll ==
  [][/\ _state'.last_updated = None =>
          /\ _state'.spike_alerts = <<>>
          /\ _state'.contractor_flags = <<>>
          /\ _state'.state_sector_agg = <<>>
          /\ response' # response =>
               (response'.data = <<>> /\ response'.count = 0)
     /\ _state.last_updated # None => _state'.last_updated # None]_vars

\* Alerts are on file, no poll has run, and a request was answered.
C23_Witness ==
  /\ _state.last_updated = None
  /\ spike_file # <<>>
  /\ response.limit > 0

\* C24: whatever building the question answerer gives (an answerer, None, an
\* exception), the startup goes on to start the poller, and a /query request
\* made while _rag_answerer is None is answered 503 without a call of the
\* answerer.
C24_AnswererFailureIsContained ==
  [][/\ lifespan_pc = "build_rag" =>
          lifespan_pc' \in {"build_rag", "start_poller"}
     /\ lifespan_pc' \in {"start_pathway", "build_rag", "start_poller",
                          "running"}
     /\ (query_response' # query_response /\ _rag_answerer = "None") =>
          (query_response'.status_code = 503 /\ ~query_response'.invoked)]_vars

\* No answerer, the poller runs and serves flags, a question got 503.
C24_Witness ==
  /\ _rag_answerer = "None"
  /\ lifespan_pc = "running"
  /\ _state.contractor_flags # <<>>
  /\ query_response.status_code = 503

\* The records of the valid lines of the file given to _read_jsonl.
ValidRecords ==
  {jsonl_path.lines[i].value :
     i \in {j \in DOMAIN jsonl_path.lines : jsonl_path.lines[j].kind = "json"}}

\* The first line of the file that holds the record.
FirstLine(rec) ==
  CHOOSE i \in DOMAIN jsonl_path.lines :
    /\ jsonl_path.lines[i].kind = "json" /\ jsonl_path.lines[i].value = rec
    /\ \A j \in 1..(i - 1) :
         ~(jsonl_path.lines[j].kind = "json"
             /\ jsonl_path.lines[j].value = rec)

ServedCounts(i) ==
  LET e == stream_file[i].event
      upto == KeyIds(StreamEvents, e.state, e.sector) \cap 1..i
      agg == _state.state_sector_agg
  IN  \E k \in DOMAIN agg :
        /\ agg[k].state = e.state /\ agg[k].sector = e.sector
        /\ agg[k].event_count >= Cardinality(upto)

\* C26: with the writers, the engine and the poller scheduled fairly, every
\* event appended to the stream file is eventually counted in the event_count
\* served for its (state, sector) key.
C26_EventuallyServed ==
  \A i \in 1..MaxLiveLines :
    (Len(stream_file) >= i) ~> (Len(stream_file) >= i /\ ServedCounts(i))

\* Every line the writers can write is written, read and served.
C26_Witness ==
  /\ Len(stream_file) = MaxLiveLines
  /\ read_offset = Len(stream_file)
  /\ now = MaxLiveLines
  /\ ServedCounts(Len(stream_file))

\* C27: no event has a spike alert while its sector holds at most
\* SPIKE_MULTIPLIER events: the first event of a sector is never a spike and
\* a spike needs at least five events in the sector.
C27_NoSpikeInSmallSector ==
  \A r \in spike_alerts :
    Cardinality(SectorIds(table, r.sector)) > SPIKE_MULTIPLIER

\* A sector of exactly SPIKE_MULTIPLIER events, a large one after small ones.
C27_Witness ==
  /\ Len(table) = SPIKE_MULTIPLIER
  /\ table[1].allocation = 300
  /\ table[Len(table)].allocation = 5000
  /\ Cardinality(SectorIds(table, "Electricity")) = SPIKE_MULTIPLIER
  /\ spike_alerts = {}

\* The sum of the numbers v of a set of records [k, v].
RECURSIVE SumValues(_)
SumValues(S) ==
  IF S = {} THEN 0
  ELSE LET x == CHOOSE y \in S : TRUE IN x.v + SumValues(S \ {x})

\* C28: for every sector, the totals and counts of its (state, sector)
\* aggregates add up to the total and count behind the sector average, and
\* the cumulative spend of all contractors adds up to the sum of all
\* (state, sector) totals.
C28_Conservation ==
  /\ \A se \in Range(SECTORS) :
       LET keyRows == {r \in state_sector_agg : r.sector = se}
           avgRows == {a \in sector_avg : a.sector = se}
       IN  /\ Cardinality(avgRows) = IF keyRows = {} THEN 0 ELSE 1
           /\ \A a \in avgRows :
                /\ a.total = SumValues({[k |-> r, v |-> r.total_allocation] :
                                          r \in keyRows})
                /\ a.count = SumValues({[k |-> r, v |-> r.event_count] :
                                          r \in keyRows})
  /\ SumValues({[k |-> r, v |-> r.total_spend] : r \in contractor_agg})
       = SumValues({[k |-> r, v |-> r.total_allocation] :
                      r \in state_sector_agg})

\* A sector fed from two states by two contractors, three events in all.
C28_Witness ==
  /\ Len(table) = 3
  /\ Cardinality({r \in state_sector_agg : r.sector = "Electricity"}) = 2
  /\ Cardinality(contractor_agg) = 2
  /\ \E r \in contractor_agg : r.payment_count = 2

\* C29: with amounts that are not negative, every spike alert has a
\* sector_avg above zero and a spike_ratio that is allocation / sector_avg
\* and above SPIKE_MULTIPLIER: no ratio is the outcome of a division by zero,
\* also in a sector whose events are all of amount zero.
C29_RatioWellDefined ==
  \A r \in spike_alerts :
    /\ r.sector_avg.den > 0
    /\ r.sector_avg.num > 0
    /\ r.spike_ratio.den > 0
    /\ r.spike_ratio.num * r.sector_avg.num
         = r.spike_ratio.den * r.allocation * r.sector_avg.den
    /\ r.spike_ratio.num > SPIKE_MULTIPLIER * r.spike_ratio.den

\* An alert in a sector that started with payments of zero.
C29_Witness ==
  /\ spike_alerts # {}
  /\ table[1].allocation = 0
  /\ table[2].allocation = 0

\* C30: whatever the number of calls and of calling threads, at most one
\* writer loop is started, the stream file is opened for writing and seeded
\* at most once, and once seeded the file only grows by appended lines.
C30_SingleWriter ==
  [][/\ write_loops' <= 1
     /\ truncations' <= 1
     /\ truncations >= 1 => IsPrefix(stream_file, stream_file')]_vars

\* C31: the live context that query_budget_ai has read when it calls the
\* answerer (spike alerts, contractor flags, state-sector summary) is the
\* context one call of update_live_context gave, or the empty context of
\* before the first call, also when a poll cycle runs during the query.
C31_ContextOfOneCall ==
  query_pc.step = "answer" => enriched \in context_calls

====
